---- MODULE Spec2Model ----
(***************************************************************************)
(* A model of rcut (src/main.rs): the selector parser field_parser, the    *)
(* configuration assembly parse_command_line, the per-line evaluator       *)
(* CutJob::process_reader and the driver main with muffle_epipe.           *)
(*                                                                         *)
(* A Rust String is modelled as a sequence of one-character strings, an    *)
(* Option as a sequence of length 0 or 1, a Result as a record             *)
(* [ok, val], and isize/usize as integers of IsizeBits bits.               *)
(***************************************************************************)
EXTENDS Integers, Sequences, FiniteSets, TLC

(***************************************************************************)
(* Bounds of the model.                                                    *)
(***************************************************************************)
\* width of isize and usize in bits (scaled down from 64)
IsizeBits == 5
\* longest selector expression enumerated exhaustively
MaxExprLen == 5
\* longest input line enumerated exhaustively
MaxLineLen == 3
\* largest magnitude of a generated selector endpoint
MaxIdx == 2
\* most file arguments on a command line
MaxFiles == 2
\* latest sink call at which a write failure is injected
MaxSinkCalls == 4

(***************************************************************************)
(* Option, Result and the integer types.                                   *)
(***************************************************************************)
None == <<>>
Some(v) == <<v>>
IsSome(o) == Len(o) > 0
Unwrap(o) == o[1]

Ok(v) == [ok |-> TRUE, val |-> v]
Err(e) == [ok |-> FALSE, val |-> e]

ISIZE_MAX == 2 ^ (IsizeBits - 1) - 1
ISIZE_MIN == -(2 ^ (IsizeBits - 1))

\* two's complement wrap-around of a signed result
WrapIsize(x) == ((x - ISIZE_MIN) % (2 ^ IsizeBits)) + ISIZE_MIN

\* the cast `x as usize`
AsUsize(x) == x % (2 ^ IsizeBits)

(***************************************************************************)
(* Errors.  An anyhow::Error is its chain of causes, outermost first.      *)
(***************************************************************************)
ParseIntError(kind) == [type |-> "ParseIntError", detail |-> kind]
MessageError(msg) == [type |-> "Message", detail |-> msg]
IoError(kind) == [type |-> "io::Error", detail |-> kind]
ContextError(name) == [type |-> "Context", detail |-> name]

(***************************************************************************)
(* str::parse::<isize>                                                     *)
(***************************************************************************)
Digits == <<"0", "1", "2", "3", "4", "5", "6", "7", "8", "9">>

IsDigit(c) == \E d \in 1..10 : Digits[d] = c

DigitVal(c) == (CHOOSE d \in 1..10 : Digits[d] = c) - 1

RECURSIVE Accumulate(_, _, _)
Accumulate(digits, acc, sign) ==
    IF digits = <<>> THEN Ok(acc)
    ELSE IF ~IsDigit(Head(digits)) THEN Err(ParseIntError("InvalidDigit"))
    ELSE LET next == acc * 10 + sign * DigitVal(Head(digits))
         IN  IF next > ISIZE_MAX THEN Err(ParseIntError("PosOverflow"))
             ELSE IF next < ISIZE_MIN THEN Err(ParseIntError("NegOverflow"))
             ELSE Accumulate(Tail(digits), next, sign)

parse_isize(s) ==
    IF s = <<>> THEN Err(ParseIntError("Empty"))
    ELSE IF s = <<"-">> \/ s = <<"+">> THEN Err(ParseIntError("InvalidDigit"))
    ELSE IF Head(s) = "-" THEN Accumulate(Tail(s), 0, -1)
    ELSE IF Head(s) = "+" THEN Accumulate(Tail(s), 0, 1)
    ELSE Accumulate(s, 0, 1)

(***************************************************************************)
(* String helpers of the standard library used by the program.             *)
(***************************************************************************)
starts_with(s, c) == Len(s) > 0 /\ s[1] = c

\* index of the first occurrence of character c in s, 0 when there is none
FindChar(s, c) ==
    IF \E i \in 1..Len(s) : s[i] = c
    THEN CHOOSE i \in 1..Len(s) : s[i] = c /\ \A j \in 1..(i - 1) : s[j] # c
    ELSE 0

\* str::split(char): every piece, empty ones included
RECURSIVE SplitChar(_, _)
SplitChar(s, c) ==
    LET i == FindChar(s, c)
    IN  IF i = 0 THEN <<s>>
        ELSE <<SubSeq(s, 1, i - 1)>> \o SplitChar(SubSeq(s, i + 1, Len(s)), c)

\* str::splitn(2, char): at most two pieces, cut at the first occurrence
SplitN2(t, c) ==
    LET i == FindChar(t, c)
    IN  IF i = 0 THEN <<t>>
        ELSE <<SubSeq(t, 1, i - 1), SubSeq(t, i + 1, Len(t))>>

\* [T]::join(sep) on strings
RECURSIVE Join(_, _)
Join(parts, sep) ==
    IF parts = <<>> THEN <<>>
    ELSE IF Len(parts) = 1 THEN parts[1]
    ELSE parts[1] \o sep \o Join(Tail(parts), sep)

(***************************************************************************)
(* FieldRange and field_parser                                             *)
(***************************************************************************)
new_span(start, stop) == [start |-> start, stop |-> stop]

new_val(val) == [start |-> val, stop |-> val]

\* the closure mapped over the comma-separated tokens
ParseToken(t) ==
    LET parts == SplitN2(t, "-")
        ranges == [i \in 1..Len(parts) |-> parse_isize(parts[i])]
    IN  IF Len(ranges) = 0 THEN Err(MessageError("empty field range"))
        ELSE IF ~ranges[1].ok THEN Err(ranges[1].val)
        ELSE LET start == ranges[1].val
                 stop == IF Len(ranges) >= 2 THEN ranges[2] ELSE Ok(start)
             IN  IF ~stop.ok THEN Err(stop.val)
                 ELSE Ok(new_span(start, stop.val))

\* Iterator::collect::<Result<Vec<_>>>: the first Err, else every value
RECURSIVE Collect(_)
Collect(results) ==
    IF results = <<>> THEN Ok(<<>>)
    ELSE IF ~results[1].ok THEN results[1]
    ELSE LET rest == Collect(Tail(results))
         IN  IF ~rest.ok THEN rest ELSE Ok(<<results[1].val>> \o rest.val)

field_parser(s) ==
    IF starts_with(s, "-")
    THEN LET r == parse_isize(s)
         IN  IF r.ok THEN Ok(<<new_val(r.val)>>) ELSE Err(r.val)
    ELSE LET tokens == SplitChar(s, ",")
         IN  Collect([i \in 1..Len(tokens) |-> ParseToken(tokens[i])])

(***************************************************************************)
(* Delimiter and the splitting of a line into fields                       *)
(***************************************************************************)
Whitespace == [tag |-> "Whitespace", s |-> <<>>]

DelimString(s) == [tag |-> "String", s |-> s]

IsWhitespace(c) == c \in {" ", "\t"}

\* str::split_whitespace: the maximal runs of non-whitespace characters
RECURSIVE split_whitespace(_)
split_whitespace(line) ==
    IF line = <<>> THEN <<>>
    ELSE IF IsWhitespace(Head(line)) THEN split_whitespace(Tail(line))
    ELSE LET stops == {i \in 1..Len(line) : IsWhitespace(line[i])}
             n == IF stops = {} THEN Len(line) + 1
                  ELSE CHOOSE i \in stops : \A j \in stops : i <= j
         IN  <<SubSeq(line, 1, n - 1)>>
                 \o split_whitespace(SubSeq(line, n, Len(line)))

\* index of the first occurrence of the non-empty pattern p in s, else 0
FindStr(s, p) ==
    LET hits == {i \in 1..(Len(s) - Len(p) + 1) :
                    SubSeq(s, i, i + Len(p) - 1) = p}
    IN  IF hits = {} THEN 0 ELSE CHOOSE i \in hits : \A j \in hits : i <= j

\* str::split(&str): non-overlapping matches left to right, empty pieces kept
RECURSIVE SplitStr(_, _)
SplitStr(s, p) ==
    IF p = <<>>
    THEN <<<<>>>> \o [i \in 1..Len(s) |-> <<s[i]>>] \o <<<<>>>>
    ELSE LET i == FindStr(s, p)
         IN  IF i = 0 THEN <<s>>
             ELSE <<SubSeq(s, 1, i - 1)>>
                      \o SplitStr(SubSeq(s, i + Len(p), Len(s)), p)

line_fields(input_delim, line) ==
    IF input_delim.tag = "String" THEN SplitStr(line, input_delim.s)
    ELSE split_whitespace(line)

(***************************************************************************)
(* CutJob::process_reader, one line                                        *)
(***************************************************************************)
\* the calls of output.write_all, labelled by the statement that makes them
SepWrite(bytes) == [kind |-> "sep", bytes |-> bytes]
FieldWrite(bytes) == [kind |-> "field", bytes |-> bytes]
NlWrite == [kind |-> "nl", bytes |-> <<"\n">>]

\* the values of `range.start..=range.stop`, in iteration order
RangeIter(range) ==
    IF range.start > range.stop THEN <<>>
    ELSE [i \in 1..(range.stop - range.start + 1) |-> range.start + i - 1]

\* `if idx < 0 { len as isize - -idx + 1 } else { idx }`; an arithmetic
\* overflow panics when the build checks overflow and wraps otherwise
ResolveIdx(idx, len, checks) ==
    IF idx < 0
    THEN LET neg == -idx
             sub == len - WrapIsize(neg)
             add == WrapIsize(sub) + 1
             overflow == \/ neg > ISIZE_MAX
                         \/ sub > ISIZE_MAX \/ sub < ISIZE_MIN
                         \/ add > ISIZE_MAX
         IN  IF overflow /\ checks THEN Err("panic") ELSE Ok(WrapIsize(add))
    ELSE Ok(idx)

\* `line_fields.get((idx - 1) as usize)`
GetField(fields, idx) ==
    LET u == AsUsize(idx - 1)
    IN  IF u < Len(fields) THEN Some(fields[u + 1]) ELSE None

\* EmitField with needs_sep never consulted: a separator before every field
EmitField_SepAlways(acc, val, sep) ==
    [acc EXCEPT !.writes = acc.writes \o <<SepWrite(sep), FieldWrite(val)>>,
                !.needs_sep = TRUE]

\* the Some(val) arm of the match
EmitField(acc, val, sep) ==
    [acc EXCEPT !.writes = acc.writes
                    \o (IF acc.needs_sep THEN <<SepWrite(sep)>> ELSE <<>>)
                    \o <<FieldWrite(val)>>,
                !.needs_sep = TRUE]

\* the inner loop `for idx in range.start..=range.stop`
RECURSIVE EmitIdxs(_, _, _, _, _)
EmitIdxs(idxs, fields, sep, checks, acc) ==
    IF idxs = <<>> \/ acc.panicked THEN acc
    ELSE LET r == ResolveIdx(Head(idxs), Len(fields), checks)
         IN  IF ~r.ok THEN [acc EXCEPT !.panicked = TRUE]
             ELSE LET got == GetField(fields, r.val)
                  IN  EmitIdxs(Tail(idxs), fields, sep, checks,
                               IF IsSome(got)
                               THEN EmitField(acc, Unwrap(got), sep)
                               ELSE acc)

\* the outer loop `for range in self.selector.fields.iter()`
RECURSIVE EmitRanges(_, _, _, _, _)
EmitRanges(ranges, fields, sep, checks, acc) ==
    IF ranges = <<>> \/ acc.panicked THEN acc
    ELSE EmitRanges(Tail(ranges), fields, sep, checks,
                    EmitIdxs(RangeIter(Head(ranges)), fields, sep, checks, acc))

\* the body of `for line in reader.lines()`: the writes it makes, in order,
\* and whether it panicked before the newline
ProcessLineWrites(job, line, checks) ==
    LET fields == line_fields(job.input_delim, line)
        acc == EmitRanges(job.selector, fields, job.output_separator, checks,
                          [writes |-> <<>>, needs_sep |-> FALSE,
                           panicked |-> FALSE])
    IN  IF acc.panicked THEN [writes |-> acc.writes, panicked |-> TRUE]
        ELSE [writes |-> acc.writes \o <<NlWrite>>, panicked |-> FALSE]

(***************************************************************************)
(* parse_command_line, from clap's matches on                              *)
(***************************************************************************)
\* parse_command_line with the positional arguments kept as files even when
\* they were read as the selector
parse_command_line_KeepsArgs(m) ==
    LET sel == IF IsSome(m.fields) THEN field_parser(Unwrap(m.fields))
               ELSE field_parser(Join(m.args, <<",">>))
    IN  IF ~sel.ok THEN Err(<<sel.val>>)
        ELSE Ok([cut_job |->
                     [input_delim |-> IF IsSome(m.delimiter)
                                      THEN DelimString(Unwrap(m.delimiter))
                                      ELSE Whitespace,
                      selector |-> sel.val,
                      output_separator |->
                          IF IsSome(m.output_separator)
                          THEN Unwrap(m.output_separator)
                          ELSE IF IsSome(m.delimiter)
                          THEN Unwrap(m.delimiter)
                          ELSE <<" ">>],
                 args |-> m.args])

parse_command_line(m) ==
    LET positional == m.args
        pair == IF IsSome(m.fields)
                THEN <<field_parser(Unwrap(m.fields)), positional>>
                ELSE <<field_parser(Join(positional, <<",">>)), <<>>>>
        selector == pair[1]
        input_delim == IF IsSome(m.delimiter)
                       THEN DelimString(Unwrap(m.delimiter))
                       ELSE Whitespace
        output_separator ==
            IF IsSome(m.output_separator) THEN Unwrap(m.output_separator)
            ELSE IF IsSome(m.delimiter) THEN Unwrap(m.delimiter)
            ELSE <<" ">>
    IN  IF ~selector.ok THEN Err(<<selector.val>>)
        ELSE Ok([cut_job |-> [input_delim |-> input_delim,
                              selector |-> selector.val,
                              output_separator |-> output_separator],
                 args |-> pair[2]])

(***************************************************************************)
(* muffle_epipe                                                            *)
(***************************************************************************)
\* muffle_epipe without the broken-pipe test: every error is propagated
muffle_epipe_Propagates(chain) == Err(chain)

muffle_epipe(chain) ==
    IF \E i \in 1..Len(chain) :
           chain[i].type = "io::Error" /\ chain[i].detail = "BrokenPipe"
    THEN Ok(<<>>)
    ELSE Err(chain)

(***************************************************************************)
(* The state of a run.                                                     *)
(***************************************************************************)
VARIABLES
    matches,          \* clap's matches: fields, delimiter, output_separator, args
    files,            \* the file system: name -> Ok(lines) or Err(io error)
    stdin,            \* what standard input yields, one Result per line
    sink_fault,       \* Some([after, kind]): the sink call that fails, if any
    overflow_checks,  \* whether the build panics on arithmetic overflow
    pc,               \* where main is
    cut_job,          \* Some(CutJob) once parse_command_line has succeeded
    args,             \* the file arguments parse_command_line returned
    next_arg,         \* the position in args.iter()
    reader,           \* what reader.lines() has yet to yield
    stdout,           \* the write_all calls the sink has accepted
    sink_calls,       \* the number of sink calls made so far
    opens,            \* the names File::open was called on, in order
    err,              \* Some(chain) once a source has failed
    exit,             \* how the process ended
    consumed          \* history: the lines whose loop body has completed

vars == <<matches, files, stdin, sink_fault, overflow_checks, pc, cut_job,
          args, next_arg, reader, stdout, sink_calls, opens, err, exit,
          consumed>>

inputs == <<matches, files, stdin, sink_fault, overflow_checks>>

Running == [status |-> "running", err |-> <<>>]
ExitOk == [status |-> "ok", err |-> <<>>]
ExitErr(chain) == [status |-> "err", err |-> chain]
ExitPanic == [status |-> "panic", err |-> <<>>]

\* File::open
Open(name) ==
    IF name \in DOMAIN files THEN files[name] ELSE Err(IoError("NotFound"))

\* the number of further sink calls that succeed
SinkBudget(n) ==
    IF IsSome(sink_fault)
    THEN IF Unwrap(sink_fault).after > sink_calls
         THEN Unwrap(sink_fault).after - sink_calls ELSE 0
    ELSE n

(***************************************************************************)
(* main                                                                    *)
(***************************************************************************)
\* let (cut_job, args) = parse_command_line(None)?;
ParseCommandLine ==
    /\ pc = "start"
    /\ LET r == parse_command_line(matches)
       IN  IF r.ok
           THEN /\ cut_job' = Some(r.val.cut_job)
                /\ args' = r.val.args
                /\ pc' = "main"
                /\ exit' = exit
           ELSE /\ exit' = ExitErr(r.val)
                /\ pc' = "exit"
                /\ UNCHANGED <<cut_job, args>>
    /\ UNCHANGED <<inputs, next_arg, reader, stdout, sink_calls, opens, err,
                   consumed>>

\* the next element of args.iter(): File::open(filename).with_context(..)
OpenFile ==
    /\ pc = "main"
    /\ args # <<>>
    /\ LET filename == args[next_arg]
           fh == Open(filename)
       IN  /\ opens' = Append(opens, filename)
           /\ IF fh.ok
              THEN /\ reader' = fh.val
                   /\ pc' = "reading"
                   /\ err' = err
              ELSE /\ err' = Some(<<ContextError(filename), fh.val>>)
                   /\ pc' = "collected"
                   /\ reader' = reader
    /\ UNCHANGED <<inputs, cut_job, args, next_arg, stdout, sink_calls, exit,
                   consumed>>

\* the else branch: cut_job.process_reader(stdin.lock(), &mut stdout)
OpenStdin ==
    /\ pc = "main"
    /\ args = <<>>
    /\ reader' = stdin
    /\ pc' = "reading"
    /\ UNCHANGED <<inputs, cut_job, args, next_arg, stdout, sink_calls, opens,
                   err, exit, consumed>>

\* one iteration of `for line in reader.lines()` in process_reader
ProcessLine ==
    /\ pc = "reading"
    /\ reader # <<>>
    /\ LET line == Head(reader)
       IN  IF ~line.ok
           THEN /\ err' = Some(<<line.val>>)
                /\ pc' = "collected"
                /\ UNCHANGED <<reader, stdout, sink_calls, exit, consumed>>
           ELSE LET out == ProcessLineWrites(Unwrap(cut_job), line.val,
                                             overflow_checks)
                    budget == SinkBudget(Len(out.writes))
                IN  IF budget < Len(out.writes)
                    THEN /\ stdout' = stdout \o SubSeq(out.writes, 1, budget)
                         /\ sink_calls' = sink_calls + budget + 1
                         /\ err' = Some(<<IoError(Unwrap(sink_fault).kind)>>)
                         /\ pc' = "collected"
                         /\ UNCHANGED <<reader, exit, consumed>>
                    ELSE /\ stdout' = stdout \o out.writes
                         /\ sink_calls' = sink_calls + Len(out.writes)
                         /\ IF out.panicked
                            THEN /\ exit' = ExitPanic
                                 /\ pc' = "exit"
                                 /\ UNCHANGED <<reader, consumed>>
                            ELSE /\ reader' = Tail(reader)
                                 /\ consumed' = Append(consumed, line.val)
                                 /\ UNCHANGED <<pc, exit>>
                         /\ err' = err
    /\ UNCHANGED <<inputs, cut_job, args, next_arg, opens>>

\* the end of process_reader: output.flush()?; Ok(()), and back in main
\* the next file or the end of the collect
EndOfStream ==
    /\ pc = "reading"
    /\ reader = <<>>
    /\ IF SinkBudget(1) < 1
       THEN /\ err' = Some(<<IoError(Unwrap(sink_fault).kind)>>)
            /\ pc' = "collected"
            /\ next_arg' = next_arg
       ELSE /\ err' = err
            /\ IF next_arg < Len(args)
               THEN /\ next_arg' = next_arg + 1
                    /\ pc' = "main"
               ELSE /\ pc' = "collected"
                    /\ next_arg' = next_arg
    /\ sink_calls' = sink_calls + 1
    /\ UNCHANGED <<inputs, cut_job, args, reader, stdout, opens, exit,
                   consumed>>

\* if let Err(err) = .. { muffle_epipe(err)?; }  Ok(())
Return ==
    /\ pc = "collected"
    /\ exit' = IF IsSome(err)
               THEN LET r == muffle_epipe(Unwrap(err))
                    IN  IF r.ok THEN ExitOk ELSE ExitErr(r.val)
               ELSE ExitOk
    /\ pc' = "exit"
    /\ UNCHANGED <<inputs, cut_job, args, next_arg, reader, stdout,
                   sink_calls, opens, err, consumed>>

Next ==
    \/ ParseCommandLine
    \/ OpenFile
    \/ OpenStdin
    \/ ProcessLine
    \/ EndOfStream
    \/ Return

(***************************************************************************)
(* The inputs a run is started with.                                       *)
(***************************************************************************)
\* every sequence over S of length at most n
Seqs(S, n) == UNION {[1..k -> S] : k \in 0..n}

\* isize's Display
RECURSIVE FmtNat(_)
FmtNat(n) ==
    IF n < 10 THEN <<Digits[n + 1]>>
    ELSE FmtNat(n \div 10) \o <<Digits[(n % 10) + 1]>>

Fmt(n) == IF n < 0 THEN <<"-">> \o FmtNat(-n) ELSE FmtNat(n)

Idxs == (-MaxIdx)..MaxIdx

Words(letters) == Join([i \in 1..Len(letters) |-> <<letters[i]>>], <<" ">>)

\* the lines of the tests and of the documented examples
Alphabet7 == Words(<<"a", "b", "c", "d", "e", "f", "g">>)
Alphabet6 == Words(<<"p", "q", "r", "s", "t", "u">>)
Alphabet3 == Words(<<"i", "j", "k">>)

\* the selector expressions of the tests and of the documented examples
ExampleExprs ==
    { <<"-", "1", ",", "-", "3", ",", "-", "5">>,
      <<"1", ",", "5", ",", "2">>,
      <<"3", ",", "1", ",", "2">>,
      <<"5", "-", "2">>,
      <<"1", "-", "3">>,
      <<"1", "-", "4">>,
      <<"-", "3", "-", "-", "1">>,
      <<"1", "-", "2", ",", "3", "-", "4">>,
      <<"2", "-", "1", ",", "3", "-", "4">>,
      <<"1", ",", "1", ",", "1">>,
      <<"0", "-", "4">>,
      <<"+", "2">>,
      <<"1", ",">>,
      <<"9">>,
      <<"-", "9">> }

MatchesOf(fields, delimiter, output_separator, positional) ==
    [fields |-> fields, delimiter |-> delimiter,
     output_separator |-> output_separator, args |-> positional]

NoFiles == [n \in {} |-> Ok(<<>>)]

InitRun ==
    /\ pc = "start"
    /\ cut_job = None
    /\ args = <<>>
    /\ next_arg = 1
    /\ reader = <<>>
    /\ stdout = <<>>
    /\ sink_calls = 0
    /\ opens = <<>>
    /\ err = None
    /\ exit = Running
    /\ consumed = <<>>

\* every short selector expression, on one line of standard input
ExprAlphabet == {"-", ",", "1", "2", "x"}

InitParser ==
    /\ \E e \in Seqs(ExprAlphabet, MaxExprLen) \cup ExampleExprs :
           matches = MatchesOf(Some(e), None, None, <<>>)
    /\ files = NoFiles
    /\ stdin = <<Ok(Alphabet7)>>
    /\ sink_fault = None
    /\ overflow_checks = FALSE
    /\ InitRun

\* single values and spans over every short line, split both ways
LineAlphabet == {"a", " ", ","}

EvalExprs ==
    {Fmt(a) : a \in Idxs}
        \cup {Fmt(a) \o <<"-">> \o Fmt(b) : a \in Idxs, b \in Idxs}
        \cup ExampleExprs

EvalLines ==
    Seqs(LineAlphabet, MaxLineLen) \cup {Alphabet7, Alphabet6, Alphabet3}

InitEvaluator ==
    /\ \E e \in EvalExprs :
       \E d \in {<<None, None>>, <<Some(<<",">>), None>>,
                 <<None, Some(<<":">>)>>} :
           matches = MatchesOf(Some(e), d[1], d[2], <<>>)
    /\ files = NoFiles
    /\ \E l \in EvalLines : stdin = <<Ok(l)>>
    /\ sink_fault = None
    /\ overflow_checks = FALSE
    /\ InitRun

\* the endpoints at the limits of isize, in both kinds of build
InitOverflow ==
    /\ \E e \in {Fmt(ISIZE_MIN), Fmt(ISIZE_MIN + 1), Fmt(ISIZE_MAX),
                 Fmt(ISIZE_MAX + 1), Fmt(ISIZE_MIN - 1),
                 <<"1">> \o <<"-">> \o Fmt(ISIZE_MAX),
                 <<"1">> \o <<"-">> \o Fmt(ISIZE_MIN),
                 <<"1">>, <<"-", "1">>} :
           matches = MatchesOf(Some(e), None, None, <<>>)
    /\ files = NoFiles
    /\ stdin \in {<<Ok(Alphabet3)>>, <<Ok(Alphabet6), Ok(Alphabet3)>>, <<>>}
    /\ sink_fault = None
    /\ overflow_checks \in BOOLEAN
    /\ InitRun

\* files that open or not, read errors, and a sink that fails
FileNames == {<<"f">>, <<"g">>}

FileStates ==
    { Err(IoError("NotFound")),
      Ok(<<>>),
      Ok(<<Ok(<<"a", " ", "b">>), Ok(<<"c">>)>>),
      Ok(<<Ok(<<"d", " ", "e">>), Err(IoError("InvalidData")),
           Ok(<<"f">>)>>) }

SinkFaults ==
    {None} \cup {Some([after |-> n, kind |-> k]) :
                    n \in 0..MaxSinkCalls, k \in {"BrokenPipe", "Other"}}

InitDriver ==
    /\ \E positional \in Seqs(FileNames, MaxFiles) :
           matches = MatchesOf(Some(<<"2", ",", "1">>), None, None, positional)
    /\ files \in [FileNames -> FileStates]
    /\ stdin \in {<<Ok(<<"x", " ", "y">>), Ok(<<"z">>)>>,
                  <<Ok(<<"x">>), Err(IoError("InvalidData"))>>}
    /\ sink_fault \in SinkFaults
    /\ overflow_checks = FALSE
    /\ InitRun

\* the command lines: with and without -f, -d, -o and positional arguments
CliTokens == {<<"1">>, <<"-", "1">>, <<"2", "-", "1">>, <<"f">>, <<"x">>}

InitCli ==
    /\ \E fields \in {None, Some(<<"1">>), Some(<<"2", ",", "1">>),
                      Some(<<"x">>)} :
       \E delimiter \in {None, Some(<<",">>)} :
       \E output_separator \in {None, Some(<<":">>)} :
       \E positional \in Seqs(CliTokens, MaxFiles) :
           matches = MatchesOf(fields, delimiter, output_separator, positional)
    /\ files = [n \in {<<"f">>} |-> Ok(<<Ok(<<"a", ",", "b", " ", "c">>)>>)]
    /\ stdin = <<Ok(<<"x", ",", "y", " ", "z">>)>>
    /\ sink_fault = None
    /\ overflow_checks = FALSE
    /\ InitRun

Init ==
    \/ InitParser
    \/ InitEvaluator
    \/ InitOverflow
    \/ InitDriver
    \/ InitCli

Spec == Init /\ [][Next]_vars
(***************************************************************************)
(* What a run shows: the output lines and the lines they came from.        *)
(***************************************************************************)
Job == Unwrap(cut_job)

NlIndex(ws) ==
    LET nls == {i \in 1..Len(ws) : ws[i].kind = "nl"}
    IN  IF nls = {} THEN 0 ELSE CHOOSE i \in nls : \A j \in nls : i <= j

\* the writes of each completed output line, its newline left out
RECURSIVE Groups(_)
Groups(ws) ==
    LET i == NlIndex(ws)
    IN  IF i = 0 THEN <<>>
        ELSE <<SubSeq(ws, 1, i - 1)>> \o Groups(SubSeq(ws, i + 1, Len(ws)))

\* the writes after the last newline
RECURSIVE LastGroup(_)
LastGroup(ws) ==
    LET i == NlIndex(ws)
    IN  IF i = 0 THEN ws ELSE LastGroup(SubSeq(ws, i + 1, Len(ws)))

KindCount(g, k) == Cardinality({i \in 1..Len(g) : g[i].kind = k})

FieldsOf(g) ==
    LET fs == SelectSeq(g, LAMBDA w : w.kind = "field")
    IN  [i \in 1..Len(fs) |-> fs[i].bytes]

RECURSIVE Bytes(_)
Bytes(ws) == IF ws = <<>> THEN <<>> ELSE Head(ws).bytes \o Bytes(Tail(ws))

FieldsOfLine(i) == line_fields(Job.input_delim, consumed[i])

\* the 1-based position an index stands for on a line of fc fields
Position(idx, fc) == IF idx < 0 THEN fc + idx + 1 ELSE idx

\* the fields at the in-range positions of idxs, in the order of idxs
FieldsAt(idxs, fields) ==
    LET ps == [i \in 1..Len(idxs) |-> Position(idxs[i], Len(fields))]
        keep == SelectSeq(ps, LAMBDA q : q >= 1 /\ q <= Len(fields))
    IN  [i \in 1..Len(keep) |-> fields[keep[i]]]

\* the text handed to field_parser
SelectorText ==
    IF IsSome(matches.fields) THEN Unwrap(matches.fields)
    ELSE Join(matches.args, <<",">>)

Parsed == pc # "start"

(***************************************************************************)
(* C1.  A range with start > stop is walked downwards, start, start-1,     *)
(* ..., stop, and the in-range fields are emitted in that order: "5-2" on  *)
(* a 6-field line emits fields 5, 4, 3, 2.                                 *)
(***************************************************************************)
DescendingIter(range) ==
    IF range.start <= range.stop
    THEN [i \in 1..(range.stop - range.start + 1) |-> range.start + i - 1]
    ELSE [i \in 1..(range.start - range.stop + 1) |-> range.start - i + 1]

RECURSIVE DescendingIdxs(_)
DescendingIdxs(ranges) ==
    IF ranges = <<>> THEN <<>>
    ELSE DescendingIter(Head(ranges)) \o DescendingIdxs(Tail(ranges))

C1_DescendingRangeEmitted ==
    IsSome(cut_job) =>
        \A i \in 1..Len(consumed) :
            /\ i <= Len(Groups(stdout))
            /\ FieldsOf(Groups(stdout)[i])
                   = FieldsAt(DescendingIdxs(Job.selector), FieldsOfLine(i))

(***************************************************************************)
(* C2.  An expression whose comma-separated tokens are each one signed     *)
(* integer parses to one range {N, N} per token, in token order, also when *)
(* the first token is negative; "-1,-3,-5" on "a b c d e f g" prints       *)
(* "g e c".                                                                *)
(***************************************************************************)
TokensOf(e) == SplitChar(e, ",")

AllSignedIntegers(e) ==
    \A i \in 1..Len(TokensOf(e)) : parse_isize(TokensOf(e)[i]).ok

C2_SignedIntegerList ==
    /\ (Parsed /\ AllSignedIntegers(SelectorText)) =>
           /\ IsSome(cut_job)
           /\ Job.selector
                  = [i \in 1..Len(TokensOf(SelectorText)) |->
                        new_val(parse_isize(TokensOf(SelectorText)[i]).val)]
    /\ ( /\ pc = "exit"
         /\ matches.fields = Some(<<"-", "1", ",", "-", "3", ",", "-", "5">>)
         /\ stdin = <<Ok(Alphabet7)>> ) =>
           Bytes(stdout) = <<"g", " ", "e", " ", "c", "\n">>

(***************************************************************************)
(* C3.  "A-B" with signed integers A and B parses to exactly the range     *)
(* {A, B}, endpoints as written: the token is cut at its first '-' that    *)
(* separates two integers, so "-3--1" is {-3, -1}.                         *)
(***************************************************************************)
SpanCuts(e) ==
    {i \in 1..Len(e) : /\ e[i] = "-"
                        /\ parse_isize(SubSeq(e, 1, i - 1)).ok
                        /\ parse_isize(SubSeq(e, i + 1, Len(e))).ok}

C3_SpanEndpointsVerbatim ==
    (Parsed /\ SpanCuts(SelectorText) # {}) =>
        LET e == SelectorText
            cut == CHOOSE i \in SpanCuts(e) : \A j \in SpanCuts(e) : i <= j
        IN  /\ IsSome(cut_job)
            /\ Job.selector
                   = <<new_span(parse_isize(SubSeq(e, 1, cut - 1)).val,
                                parse_isize(SubSeq(e, cut + 1, Len(e))).val)>>

(***************************************************************************)
(* C4.  An expression with an empty token ("1,,2", a trailing comma) is    *)
(* rejected with the "empty field range" error, not with the error of a    *)
(* token that is not an integer.                                           *)
(***************************************************************************)
HasEmptyToken(e) == \E i \in 1..Len(TokensOf(e)) : TokensOf(e)[i] = <<>>

C4_EmptyTokenError ==
    (Parsed /\ HasEmptyToken(SelectorText)) =>
        exit = ExitErr(<<MessageError("empty field range")>>)

(***************************************************************************)
(* C5.  When one file of the list cannot be opened, every file is still    *)
(* opened and every file that opens is processed to the end, those after   *)
(* the failing one included; the failure is reported afterwards.           *)
(***************************************************************************)
OkLines(items) ==
    LET oks == SelectSeq(items, LAMBDA it : it.ok)
    IN  [i \in 1..Len(oks) |-> oks[i].val]

RECURSIVE LinesOfFiles(_)
LinesOfFiles(names) ==
    IF names = <<>> THEN <<>>
    ELSE (IF Open(Head(names)).ok THEN OkLines(Open(Head(names)).val)
          ELSE <<>>) \o LinesOfFiles(Tail(names))

OpenFailed == IsSome(err) /\ Unwrap(err)[1].type = "Context"

C5_AllSourcesAttempted ==
    (pc = "exit" /\ OpenFailed /\ sink_fault = None) =>
        /\ opens = args
        /\ (\A i \in 1..Len(args) :
               Open(args[i]).ok => \A j \in 1..Len(Open(args[i]).val) :
                                       Open(args[i]).val[j].ok)
           => consumed = LinesOfFiles(args)

(***************************************************************************)
(* C6.  On every output line the separator stands exactly between          *)
(* consecutive emitted fields: k fields come with max(0, k-1) separators,  *)
(* none leading or trailing, and a selected index that is out of range     *)
(* adds neither a field nor a separator.                                   *)
(***************************************************************************)
InRange(idx, fc) == Position(idx, fc) >= 1 /\ Position(idx, fc) <= fc

RECURSIVE SelectedInRange(_, _)
SelectedInRange(ranges, fc) ==
    IF ranges = <<>> THEN 0
    ELSE Cardinality({idx \in Head(ranges).start..Head(ranges).stop :
                         InRange(idx, fc)})
             + SelectedInRange(Tail(ranges), fc)

SeparatedLine(g, sep) ==
    LET k == KindCount(g, "field")
    IN  /\ KindCount(g, "sep") = IF k = 0 THEN 0 ELSE k - 1
        /\ Len(g) = k + KindCount(g, "sep")
        /\ g # <<>> => g[1].kind = "field" /\ g[Len(g)].kind = "field"
        /\ \A i \in 1..(Len(g) - 1) : g[i].kind # g[i + 1].kind
        /\ \A i \in 1..Len(g) : g[i].kind = "sep" => g[i].bytes = sep

C6_SeparatorBetweenFields ==
    IsSome(cut_job) =>
        LET gs == Groups(stdout)
        IN  /\ Len(gs) >= Len(consumed)
            /\ \A i \in 1..Len(consumed) :
                   /\ SeparatedLine(gs[i], Job.output_separator)
                   /\ KindCount(gs[i], "field")
                          = SelectedInRange(Job.selector, Len(FieldsOfLine(i)))
            \* a line cut short by a failure starts with a field as well
            /\ LET g == LastGroup(stdout)
               IN  /\ g # <<>> => g[1].kind = "field"
                   /\ \A i \in 1..(Len(g) - 1) : g[i].kind # g[i + 1].kind

C6_Witness ==
    /\ IsSome(cut_job)
    /\ Job.selector = <<new_val(1), new_val(5), new_val(2)>>
    /\ consumed = <<Alphabet3>>
    /\ stdout = <<FieldWrite(<<"i">>), SepWrite(<<" ">>), FieldWrite(<<"j">>),
                  NlWrite>>

(***************************************************************************)
(* C7.  A run without read, write or open failure gives the sink one       *)
(* newline-terminated output line per input line, in the order read,       *)
(* source after source in the order given; a line with no emitted field    *)
(* still gives its newline.                                                *)
(***************************************************************************)
AllInputLines == IF args = <<>> THEN OkLines(stdin) ELSE LinesOfFiles(args)

C7_OneOutputLinePerInputLine ==
    (pc = "exit" /\ IsSome(cut_job) /\ err = None) =>
        LET gs == Groups(stdout)
        IN  /\ Len(gs) = Len(AllInputLines)
            /\ LastGroup(stdout) = <<>>
            /\ \A i \in 1..Len(gs) :
                   FieldsOf(gs[i])
                       = FieldsOf(ProcessLineWrites(Job, AllInputLines[i],
                                                    FALSE).writes)

(***************************************************************************)
(* C8.  Every raw index idx resolves to position field_count + idx + 1     *)
(* when negative and to idx otherwise; the field there is emitted iff the  *)
(* position is within [1, field_count], and otherwise the index is passed  *)
(* over silently: no error, no wrong field.                                *)
(***************************************************************************)
RECURSIVE EnumeratedIdxs(_)
EnumeratedIdxs(ranges) ==
    IF ranges = <<>> THEN <<>>
    ELSE RangeIter(Head(ranges)) \o EnumeratedIdxs(Tail(ranges))

C8_IndexResolution ==
    /\ exit.status # "panic"
    /\ IsSome(cut_job) =>
           \A i \in 1..Len(consumed) :
               /\ i <= Len(Groups(stdout))
               /\ FieldsOf(Groups(stdout)[i])
                      = FieldsAt(EnumeratedIdxs(Job.selector), FieldsOfLine(i))

\* C8's resolution rule on every line whose loop body ran to its end: the
\* only run that departs from C8 is the one that panics
IndexResolutionOfConsumedLines ==
    IsSome(cut_job) =>
        \A i \in 1..Len(consumed) :
            /\ i <= Len(Groups(stdout))
            /\ FieldsOf(Groups(stdout)[i])
                   = FieldsAt(EnumeratedIdxs(Job.selector), FieldsOfLine(i))

\* C7 in the runs that do not panic
OneOutputLinePerInputLineUnlessPanic ==
    exit.status = "panic" \/ C7_OneOutputLinePerInputLine

(***************************************************************************)
(* C9.  The two readings of the positional arguments exclude each other    *)
(* and -f wins: with -f the selector is the flag's value and every         *)
(* positional argument is a file; without it the positional arguments      *)
(* joined with commas are the selector and there is no file.               *)
(***************************************************************************)
RECURSIVE IsPrefix(_, _)
IsPrefix(a, b) ==
    \/ a = <<>>
    \/ /\ b # <<>>
       /\ Head(a) = Head(b)
       /\ IsPrefix(Tail(a), Tail(b))

C9_FlagWinsOverPositional ==
    Parsed =>
        LET sel == IF IsSome(matches.fields)
                   THEN field_parser(Unwrap(matches.fields))
                   ELSE field_parser(Join(matches.args, <<",">>))
        IN  IF sel.ok
            THEN /\ IsSome(cut_job)
                 /\ Job.selector = sel.val
                 /\ args = IF IsSome(matches.fields) THEN matches.args
                           ELSE <<>>
                 /\ IF IsSome(matches.fields) THEN IsPrefix(opens, matches.args)
                    ELSE opens = <<>>
            ELSE /\ cut_job = None
                 /\ exit = ExitErr(<<sel.val>>)
                 /\ opens = <<>>

C9_Witness ==
    /\ matches.fields = Some(<<"2", ",", "1">>)
    /\ matches.args = <<<<"1">>, <<"f">>>>
    /\ IsSome(cut_job)
    /\ Job.selector = <<new_val(2), new_val(1)>>
    /\ args = <<<<"1">>, <<"f">>>>
    /\ opens = <<<<"1">>>>

(***************************************************************************)
(* C10.  A source that fails with an error whose chain of causes holds a   *)
(* broken-pipe I/O error ends the run cleanly, with success and nothing    *)
(* reported; every other read, write or open failure is the run's reported *)
(* failure.                                                                *)
(***************************************************************************)
HasBrokenPipe(chain) ==
    \E i \in 1..Len(chain) : chain[i] = IoError("BrokenPipe")

C10_BrokenPipeMuffled ==
    (pc = "exit" /\ IsSome(err)) =>
        IF HasBrokenPipe(Unwrap(err)) THEN exit = ExitOk
        ELSE exit = ExitErr(Unwrap(err))

C10_Witness ==
    /\ pc = "exit"
    /\ err = Some(<<IoError("BrokenPipe")>>)
    /\ exit = ExitOk
    /\ stdout # <<>>
    /\ LastGroup(stdout) # <<>>
====
